---- MODULE Spec2Model ----
(***************************************************************************)
(* A model of io_scene_fbx/export_fbx_bin.py: the UID registry, the        *)
(* Properties70 writers, and the section writers driven by save_single.    *)
(***************************************************************************)
EXTENDS Integers, Sequences, FiniteSets, TLC

(***************************************************************************)
(* Bounds of the model.                                                    *)
(*                                                                         *)
(* UidBits scales the 64-bit UID space of the source down: 2**64 becomes   *)
(* 2^UidBits and 2**63 becomes 2^(UidBits-1); Python integers themselves   *)
(* are unbounded, so nothing wraps.                                        *)
(***************************************************************************)
UidBits == 2
\* integer keys range over -KeySpan .. 2^UidBits - 1 + KeySpan
KeySpan == 1
\* how many distinct keys the registry is driven with in SpecUid
MaxKeys == 4
\* how many P children a Properties70 container is filled with in SpecProps
MaxProps == 2
\* how many objects a scene holds in Spec
MaxObjects == 2
\* how many times save_single is run in one process in Spec
MaxRuns == 2

VARIABLES
    keys_to_uids,   \* _keys_to_uids: key -> UID            (line 85)
    uids_to_keys,   \* _uids_to_keys: UID -> key            (line 86)
    last,           \* the last get_fbxuid_from_key call and its outcome
    tmpl,           \* the FBXTemplate the property writers are driven with
    props,          \* a Properties70 container (elem_properties)
    pcall,          \* the last property-writer call and its outcome
    pc,             \* where save_single stands ("idle" between runs)
    fbx_scene,      \* scene of save_single                     (line 775)
    fbx_scene_data, \* scene_data of save_single                (line 811)
    fbx_root,       \* root of save_single                      (line 813)
    runs,           \* how many save_single runs have ended
    ret             \* how the last run ended: its return value or its exception

uidVars == <<keys_to_uids, uids_to_keys, last>>
propVars == <<tmpl, props, pcall>>
exportVars == <<pc, fbx_scene, fbx_scene_data, fbx_root, runs, ret>>
vars == <<keys_to_uids, uids_to_keys, last, tmpl, props, pcall,
          pc, fbx_scene, fbx_scene_data, fbx_root, runs, ret>>

------------------------------------------------------------------------------
(***************************************************************************)
(* UIDs code (lines 77-118).                                               *)
(***************************************************************************)

\* 2**64 and 2**63 of _key_to_uid, scaled.
UidLimit == 2 ^ UidBits
UidHalf == 2 ^ (UidBits - 1)

\* A key is an int or a str; both are carried in one record shape.
IntKey(i) == [t |-> "int", i |-> i, s |-> ""]
StrKey(s) == [t |-> "str", i |-> 0, s |-> s]

\* isinstance(key, int) and 0 <= key < 2**64
IsDirectKey(key) == key.t = "int" /\ 0 <= key.i /\ key.i < UidLimit

\* CPython's hash of an int: sign * (|k| mod P) with -1 replaced by -2, where
\* P is 2**61 - 1 for a 64-bit build; scaled here to 2^(UidBits-1) - 1.
HashModulus == UidHalf - 1
PyIntHash(k) ==
    LET m == (IF k < 0 THEN -k ELSE k) % HashModulus
        h == IF k < 0 THEN -m ELSE m
    IN  IF h = -1 THEN -2 ELSE h

\* The values hash() of a str can take: Py_ssize_t without -1.
StrHashRange == (-UidHalf .. UidHalf - 1) \ {-1}

\* The candidate of lines 93-97; h is the value hash(key) has in this process.
Candidate(key, h) == IF IsDirectKey(key) THEN key.i ELSE h

\* The loop of lines 101-105, entered with uid in uids. The guard of the raise
\* is the chained comparison 0 > uid >= 2**64.
RECURSIVE Probe(_, _, _)
Probe(uids, uid, inc) ==
    LET n == uid + inc
    IN  IF 0 > n /\ n >= UidLimit
        THEN [raised |-> TRUE, uid |-> n]
        ELSE IF n \in uids
             THEN Probe(uids, n, inc)
             ELSE [raised |-> FALSE, uid |-> n]

\* A _key_to_uid that returns its candidate without making it unique.
key_to_uid_no_probe(uids, key, h) ==
    [raised |-> FALSE, uid |-> Candidate(key, h)]

\* A _key_to_uid that hashes every key, usable integers included.
key_to_uid_always_hash(uids, key, h) ==
    LET uid == IF key.t = "int" THEN PyIntHash(key.i) ELSE h
    IN  IF uid \in uids
        THEN Probe(uids, uid, IF uid < UidHalf THEN 1 ELSE -1)
        ELSE [raised |-> FALSE, uid |-> uid]

\* A _key_to_uid whose probe always counts upwards.
key_to_uid_probe_up(uids, key, h) ==
    LET uid == Candidate(key, h)
    IN  IF uid \in uids
        THEN Probe(uids, uid, 1)
        ELSE [raised |-> FALSE, uid |-> uid]

\* _key_to_uid(uids, key), lines 89-106.
_key_to_uid(uids, key, h) ==
    LET uid == Candidate(key, h)
    IN  IF uid \in uids
        THEN Probe(uids, uid, IF uid < UidHalf THEN 1 ELSE -1)
        ELSE [raised |-> FALSE, uid |-> uid]

\* The hash values key can have: fixed for an int, any for a str (str hashes
\* are drawn per process; the registry hashes a key at most once, since no
\* entry is ever removed).
HashesOf(key) == IF key.t = "int" THEN {PyIntHash(key.i)} ELSE StrHashRange

NoKey == [t |-> "none", i |-> 0, s |-> ""]
NoCall == [key |-> NoKey, uid |-> 0, raised |-> FALSE, hit |-> FALSE,
           probed |-> FALSE, cand |-> 0]

\* A get_fbxuid_from_key that never consults the forward map.
get_fbxuid_from_key_no_memo(fwd, rev, key, h) ==
    LET r == _key_to_uid(DOMAIN rev, key, h)
    IN  [fwd |-> [k \in DOMAIN fwd \cup {key} |-> IF k = key THEN r.uid ELSE fwd[k]],
         rev |-> [u \in DOMAIN rev \cup {r.uid} |-> IF u = r.uid THEN key ELSE rev[u]],
         call |-> [key |-> key, uid |-> r.uid, raised |-> FALSE, hit |-> FALSE,
                   probed |-> Candidate(key, h) \in DOMAIN rev,
                   cand |-> Candidate(key, h)]]

\* get_fbxuid_from_key(key), lines 109-118, on the maps fwd and rev: the maps
\* after the call and the call's outcome. A raise leaves both maps as they are.
\* cand is the candidate _key_to_uid started from; a call that finds its key
\* in the forward map computes none, and carries the stored UID there.
get_fbxuid_from_key(fwd, rev, key, h) ==
    IF key \in DOMAIN fwd
    THEN [fwd |-> fwd, rev |-> rev,
          call |-> [key |-> key, uid |-> fwd[key], raised |-> FALSE,
                    hit |-> TRUE, probed |-> FALSE, cand |-> fwd[key]]]
    ELSE LET r == _key_to_uid(DOMAIN rev, key, h)
             c == [key |-> key, uid |-> r.uid, raised |-> r.raised,
                   hit |-> FALSE, probed |-> Candidate(key, h) \in DOMAIN rev,
                   cand |-> Candidate(key, h)]
         IN  IF r.raised
             THEN [fwd |-> fwd, rev |-> rev, call |-> c]
             ELSE [fwd |-> [k \in DOMAIN fwd \cup {key} |->
                               IF k = key THEN r.uid ELSE fwd[k]],
                   rev |-> [u \in DOMAIN rev \cup {r.uid} |->
                               IF u = r.uid THEN key ELSE rev[u]],
                   call |-> c]

------------------------------------------------------------------------------
(***************************************************************************)
(* Values. A Python value handed to the writers is None, a number, a str,  *)
(* a bytes or a 3-sequence of numbers. A number is held as its canonical   *)
(* decimal text, so that Python's == on numbers (False == 0 == 0.0,        *)
(* True == 1 == 1.0) is equality of values here.                           *)
(***************************************************************************)
PyNone == [shape |-> "none", s |-> "", v |-> <<>>]
Num(x) == [shape |-> "num", s |-> x, v |-> <<>>]
Str(x) == [shape |-> "str", s |-> x, v |-> <<>>]
Bytes(x) == [shape |-> "bytes", s |-> x, v |-> <<>>]
Vec3(x, y, z) == [shape |-> "vec", s |-> "", v |-> <<Num(x), Num(y), Num(z)>>]

\* Whether tuple(val) and zip(.., val) accept val; a str or bytes is iterable
\* too, but none meets a multi-component kind in this file.
IsIterable(val) == val.shape = "vec"
\* tuple(val) of an iterable val.
TupleOf(val) == val.v

Min(a, b) == IF a < b THEN a ELSE b

(***************************************************************************)
(* Element generators (lines 141-230). An element is encode_bin.FBXElem:   *)
(* a name, the payload items added by its add_* methods in call order, and *)
(* its child elements.                                                     *)
(***************************************************************************)
FBXElem(name) == [name |-> name, payload |-> <<>>, elems |-> <<>>]

\* getattr(elem, func_name)(value): one payload item, tagged by its encoder.
add(elem, func_name, value) ==
    [elem EXCEPT !.payload = Append(@, [enc |-> func_name, val |-> value])]

\* elem.elems.append(sub_elem) of elem_empty (line 147).
attach(elem, sub_elem) == [elem EXCEPT !.elems = Append(@, sub_elem)]

\* elem_empty(elem, name): elem with a new empty child, lines 144-148.
elem_empty(elem, name) == attach(elem, FBXElem(name))

\* The sub_elem of _elem_data_single (lines 155-158) and of _elem_data_vec
\* (lines 161-166), before it is appended to its parent.
data_single(name, value, func_name) == add(FBXElem(name), func_name, value)
data_vec(name, value, func_name) ==
    [FBXElem(name) EXCEPT !.payload =
        [i \in 1 .. Len(TupleOf(value)) |->
            [enc |-> func_name, val |-> TupleOf(value)[i]]]]

\* _elem_data_single / _elem_data_vec: elem after the call.
_elem_data_single(elem, name, value, func_name) ==
    attach(elem, data_single(name, value, func_name))
_elem_data_vec(elem, name, value, func_name) ==
    attach(elem, data_vec(name, value, func_name))

(***************************************************************************)
(* Generators for standard FBXProperties70 properties (lines 232-286).     *)
(***************************************************************************)
\* (b"type_1", b"type_2", b"type_3", "name_set_value_1", ...), lines 237-255.
FBX_PROPERTIES_DEFINITIONS ==
    "p_bool" :> <<"bool", "", "", "add_bool">> @@
    "p_integer" :> <<"int", "Integer", "", "add_int32">> @@
    "p_enum" :> <<"enum", "", "", "add_int32">> @@
    "p_number" :> <<"double", "Number", "", "add_float64">> @@
    "p_visibility" :> <<"Visibility", "", "A+", "add_float64">> @@
    "p_fov" :> <<"FieldOfView", "", "A+", "add_float64">> @@
    "p_fov_x" :> <<"FieldOfViewX", "", "A+", "add_float64">> @@
    "p_fov_y" :> <<"FieldOfViewY", "", "A+", "add_float64">> @@
    "p_vector_3d" :> <<"Vector3D", "Vector", "",
                       "add_float64", "add_float64", "add_float64">> @@
    "p_lcl_translation" :> <<"Lcl Translation", "", "A+",
                             "add_float64", "add_float64", "add_float64">> @@
    "p_lcl_rotation" :> <<"Lcl Rotation", "", "A+",
                          "add_float64", "add_float64", "add_float64">> @@
    "p_lcl_scaling" :> <<"Lcl Scaling", "", "A+",
                         "add_float64", "add_float64", "add_float64">> @@
    "p_color_rgb" :> <<"ColorRGB", "Color", "",
                       "add_float64", "add_float64", "add_float64">> @@
    "p_string" :> <<"KString", "", "", "add_string_unicode">> @@
    "p_string_url" :> <<"KString", "Url", "", "add_string_unicode">> @@
    "p_timestamp" :> <<"KTime", "Time", "", "add_int64">> @@
    "p_object" :> <<"object", "", "">>

PropertyKinds == DOMAIN FBX_PROPERTIES_DEFINITIONS

\* The P element of line 259 with the three tags of lines 260-261 added.
PHead(ptype, name) ==
    add(add(add(data_single("P", Bytes(name), "add_string"),
                "add_string", Bytes(ptype[1])),
            "add_string", Bytes(ptype[2])),
        "add_string", Bytes(ptype[3]))

\* The encoded values of lines 262-267: the value itself for one encoder,
\* zip(ptype[3:], value) for more, nothing for none.
PValues(ptype, value) ==
    IF Len(ptype) = 4
    THEN <<[enc |-> ptype[4], val |-> value]>>
    ELSE IF Len(ptype) > 4
         THEN [i \in 1 .. Min(Len(ptype) - 3, Len(TupleOf(value))) |->
                  [enc |-> ptype[3 + i], val |-> TupleOf(value)[i]]]
         ELSE <<>>

\* An _elem_props_set that adds the value items before the three tags.
elem_props_set_values_first(elem, ptype, name, value) ==
    LET p == data_single("P", Bytes(name), "add_string")
        q == [p EXCEPT !.payload = @ \o PValues(ptype, value)]
    IN  [elem |-> attach(elem,
                    add(add(add(q, "add_string", Bytes(ptype[1])),
                            "add_string", Bytes(ptype[2])),
                        "add_string", Bytes(ptype[3]))),
         exc |-> "none"]

\* _elem_props_set(elem, ptype, name, value), lines 258-267: elem after the
\* call and the exception raised, if any. zip() of a value that is not
\* iterable raises TypeError, after P and its tags were appended.
_elem_props_set(elem, ptype, name, value) ==
    IF Len(ptype) > 4 /\ ~IsIterable(value)
    THEN [elem |-> attach(elem, PHead(ptype, name)), exc |-> "TypeError"]
    ELSE [elem |-> attach(elem,
                     [PHead(ptype, name) EXCEPT
                         !.payload = @ \o PValues(ptype, value)]),
          exc |-> "none"]

\* elem_props_set(elem, ptype, name, value=None), lines 270-272.
elem_props_set(elem, ptype, name, value) ==
    _elem_props_set(elem, FBX_PROPERTIES_DEFINITIONS[ptype], name, value)

(***************************************************************************)
(* Templates (lines 289-441). A template's properties dict is held as the  *)
(* sequence of its items in insertion order.                               *)
(***************************************************************************)
Prop(name, value, ptype) == [name |-> name, value |-> value, ptype |-> ptype]

DictKeys(d) == {d[i].name : i \in DOMAIN d}
\* d[name], for name in d.
DictGet(d, name) == d[CHOOSE i \in DOMAIN d : d[i].name = name]
\* d.update(other): a key of d keeps its place and takes the new item, a new
\* key is appended.
RECURSIVE DictUpdate(_, _)
DictUpdate(d, other) ==
    IF other = <<>> THEN d
    ELSE LET e == Head(other)
             d1 == IF e.name \in DictKeys(d)
                   THEN [i \in DOMAIN d |-> IF d[i].name = e.name THEN e ELSE d[i]]
                   ELSE Append(d, e)
         IN  DictUpdate(d1, Tail(other))

\* The None of (None, None), line 281.
NoPtype == "None"

\* elem_props_template_set(template, elem, ptype_name, name, value), lines
\* 275-286. tuple() of a value that is not iterable raises TypeError; the
\* left operand tuple(tmpl_val) is evaluated first, then tuple(value).
elem_props_template_set(template, elem, ptype_name, name, value) ==
    LET ptype == FBX_PROPERTIES_DEFINITIONS[ptype_name]
        found == name \in DictKeys(template.properties)
        tmpl_val == IF found THEN DictGet(template.properties, name).value
                    ELSE PyNone
        tmpl_ptype == IF found THEN DictGet(template.properties, name).ptype
                      ELSE NoPtype
    IN  IF tmpl_ptype # NoPtype /\ Len(ptype) = 4
           /\ tmpl_val = value /\ tmpl_ptype = ptype_name
        THEN [elem |-> elem, exc |-> "none"]
        ELSE IF tmpl_ptype # NoPtype /\ Len(ptype) > 4
                /\ (~IsIterable(tmpl_val) \/ ~IsIterable(value))
        THEN [elem |-> elem, exc |-> "TypeError"]
        ELSE IF tmpl_ptype # NoPtype /\ Len(ptype) > 4
                /\ TupleOf(tmpl_val) = TupleOf(value) /\ tmpl_ptype = ptype_name
        THEN [elem |-> elem, exc |-> "none"]
        ELSE _elem_props_set(elem, ptype, name, value)

\* FBXTemplate, line 292.
FBXTemplate(type_name, prop_type_name, properties, nbr_users) ==
    [type_name |-> type_name, prop_type_name |-> prop_type_name,
     properties |-> properties, nbr_users |-> nbr_users]

fbx_template_def_globalsettings(override_defaults, nbr_users) ==
    FBXTemplate("GlobalSettings", "", override_defaults, nbr_users)

fbx_template_def_model(override_defaults, nbr_users) ==
    FBXTemplate("Model", "KFbxNode", DictUpdate(<<
        Prop("QuaternionInterpolate", Num("0"), "p_bool"),
        Prop("RotationOffset", Vec3("0", "0", "0"), "p_vector_3d"),
        Prop("RotationPivot", Vec3("0", "0", "0"), "p_vector_3d"),
        Prop("ScalingOffset", Vec3("0", "0", "0"), "p_vector_3d"),
        Prop("ScalingPivot", Vec3("0", "0", "0"), "p_vector_3d"),
        Prop("TranslationActive", Num("0"), "p_bool"),
        Prop("TranslationMin", Vec3("0", "0", "0"), "p_vector_3d"),
        Prop("TranslationMax", Vec3("0", "0", "0"), "p_vector_3d"),
        Prop("TranslationMinX", Num("0"), "p_bool"),
        Prop("TranslationMinY", Num("0"), "p_bool"),
        Prop("TranslationMinZ", Num("0"), "p_bool"),
        Prop("TranslationMaxX", Num("0"), "p_bool"),
        Prop("TranslationMaxY", Num("0"), "p_bool"),
        Prop("TranslationMaxZ", Num("0"), "p_bool"),
        Prop("RotationOrder", Num("0"), "p_enum"),
        Prop("RotationSpaceForLimitOnly", Num("0"), "p_bool"),
        Prop("RotationStiffnessX", Num("0"), "p_number"),
        Prop("RotationStiffnessY", Num("0"), "p_number"),
        Prop("RotationStiffnessZ", Num("0"), "p_number"),
        Prop("AxisLen", Num("10"), "p_number"),
        Prop("PreRotation", Vec3("0", "0", "0"), "p_vector_3d"),
        Prop("PostRotation", Vec3("0", "0", "0"), "p_vector_3d"),
        Prop("RotationActive", Num("0"), "p_bool"),
        Prop("RotationMin", Vec3("0", "0", "0"), "p_vector_3d"),
        Prop("RotationMax", Vec3("0", "0", "0"), "p_vector_3d"),
        Prop("RotationMinX", Num("0"), "p_bool"),
        Prop("RotationMinY", Num("0"), "p_bool"),
        Prop("RotationMinZ", Num("0"), "p_bool"),
        Prop("RotationMaxX", Num("0"), "p_bool"),
        Prop("RotationMaxY", Num("0"), "p_bool"),
        Prop("RotationMaxZ", Num("0"), "p_bool"),
        Prop("InheritType", Num("0"), "p_enum"),
        Prop("ScalingActive", Num("0"), "p_bool"),
        Prop("ScalingMin", Vec3("1", "1", "1"), "p_vector_3d"),
        Prop("ScalingMax", Vec3("1", "1", "1"), "p_vector_3d"),
        Prop("ScalingMinX", Num("0"), "p_bool"),
        Prop("ScalingMinY", Num("0"), "p_bool"),
        Prop("ScalingMinZ", Num("0"), "p_bool"),
        Prop("ScalingMaxX", Num("0"), "p_bool"),
        Prop("ScalingMaxY", Num("0"), "p_bool"),
        Prop("ScalingMaxZ", Num("0"), "p_bool"),
        Prop("GeometricTranslation", Vec3("0", "0", "0"), "p_vector_3d"),
        Prop("GeometricRotation", Vec3("0", "0", "0"), "p_vector_3d"),
        Prop("GeometricScaling", Vec3("1", "1", "1"), "p_vector_3d"),
        Prop("MinDampRangeX", Num("0"), "p_number"),
        Prop("MinDampRangeY", Num("0"), "p_number"),
        Prop("MinDampRangeZ", Num("0"), "p_number"),
        Prop("MaxDampRangeX", Num("0"), "p_number"),
        Prop("MaxDampRangeY", Num("0"), "p_number"),
        Prop("MaxDampRangeZ", Num("0"), "p_number"),
        Prop("MinDampStrengthX", Num("0"), "p_number"),
        Prop("MinDampStrengthY", Num("0"), "p_number"),
        Prop("MinDampStrengthZ", Num("0"), "p_number"),
        Prop("MaxDampStrengthX", Num("0"), "p_number"),
        Prop("MaxDampStrengthY", Num("0"), "p_number"),
        Prop("MaxDampStrengthZ", Num("0"), "p_number"),
        Prop("PreferedAngleX", Num("0"), "p_number"),
        Prop("PreferedAngleY", Num("0"), "p_number"),
        Prop("PreferedAngleZ", Num("0"), "p_number"),
        Prop("LookAtProperty", PyNone, "p_object"),
        Prop("UpVectorProperty", PyNone, "p_object"),
        Prop("Show", Num("1"), "p_bool"),
        Prop("NegativePercentShapeSupport", Num("1"), "p_bool"),
        Prop("DefaultAttributeIndex", Num("-1"), "p_integer"),
        Prop("Freeze", Num("0"), "p_bool"),
        Prop("LODBox", Num("0"), "p_bool"),
        Prop("Lcl Translation", Vec3("0", "0", "0"), "p_lcl_translation"),
        Prop("Lcl Rotation", Vec3("0", "0", "0"), "p_lcl_rotation"),
        Prop("Lcl Scaling", Vec3("1", "1", "1"), "p_lcl_scaling"),
        Prop("Visibility", Num("1"), "p_visibility")
    >>, override_defaults), nbr_users)

fbx_template_def_nodeattribute_camera(override_defaults, nbr_users) ==
    FBXTemplate("NodeAttribute", "KFbxCamera", override_defaults, nbr_users)

fbx_template_def_nodeattribute_cameraswitcher(override_defaults, nbr_users) ==
    FBXTemplate("NodeAttribute", "KFbxCameraSwitcher", DictUpdate(<<
        Prop("Color", Vec3("0.8", "0.8", "0.8"), "p_color_rgb"),
        Prop("Camera Index", Num("1"), "p_integer")
    >>, override_defaults), nbr_users)

fbx_template_def_geometry(override_defaults, nbr_users) ==
    FBXTemplate("Geometry", "KFbxMesh", DictUpdate(<<
        Prop("Color", Vec3("0.8", "0.8", "0.8"), "p_color_rgb"),
        Prop("BBoxMin", Vec3("0", "0", "0"), "p_vector_3d"),
        Prop("BBoxMax", Vec3("0", "0", "0"), "p_vector_3d")
    >>, override_defaults), nbr_users)

------------------------------------------------------------------------------
(***************************************************************************)
(* Templates written out (lines 295-303) and the scene data.               *)
(***************************************************************************)
\* elem_properties(elem), lines 151-152: the new Properties70 child.
elem_properties == FBXElem("Properties70")

\* elem_empty(None, name), lines 144-148: the new element, child of nothing.
elem_empty_none(name) == FBXElem(name)


\* fbx_template_generate(root, fbx_template), lines 295-303: root after the
\* call. The ObjectType payload is the literal b"Model" of line 296.
\* elem_props_set for each item, in order: each call appends to the
\* container what it appends to an empty one.
PropsSetAll(container, items) ==
    [container EXCEPT !.elems = @ \o
        [i \in DOMAIN items |->
            elem_props_set(FBXElem(container.name), items[i].ptype,
                           items[i].name, items[i].value).elem.elems[1]]]

fbx_template_generate(root, fbx_template) ==
    LET count == data_single("Count", Num(ToString(fbx_template.nbr_users)),
                             "add_int32")
        template == attach(data_single("ObjectType", Bytes("Model"), "add_string"),
                           count)
    IN  IF fbx_template.properties # <<>>
        THEN attach(root,
               attach(template,
                 attach(data_single("PropertyTemplate",
                                    Bytes(fbx_template.prop_type_name), "add_string"),
                        PropsSetAll(elem_properties, fbx_template.properties))))
        ELSE attach(root, template)

(***************************************************************************)
(* The scene handed to the exporter. An object has a name, a type and a    *)
(* data block (none for an empty); a data block has a name and the name of *)
(* its RNA type. Objects of a scene are distinct and ordered.              *)
(***************************************************************************)
NoData == [name |-> "", rna |-> "None"]
DataBlock(name, rna) == [name |-> name, rna |-> rna]
Object(name, type, data) == [name |-> name, rna |-> "Object", type |-> type,
                             data |-> data]

\* get_blenderID_key(bid), lines 131-132.
get_blenderID_key(bid) == "B" \o bid.rna \o "::" \o bid.name

\* get_blender_camera_keys(cam), lines 135-138.
get_blender_camera_keys(cam) ==
    <<get_blenderID_key(cam), get_blenderID_key(cam) \o "_switcher">>



\* A dict comprehension keyed by obj.data: a key met again keeps its place.
RECURSIVE DedupByData(_, _)
DedupByData(seq, seen) ==
    IF seq = <<>> THEN <<>>
    ELSE IF Head(seq).data \in seen THEN DedupByData(Tail(seq), seen)
    ELSE <<Head(seq).data>> \o DedupByData(Tail(seq), seen \cup {Head(seq).data})

RECURSIVE SumUsers(_)
SumUsers(templates) ==
    IF templates = <<>> THEN 0
    ELSE Head(templates).tmpl.nbr_users + SumUsers(Tail(templates))

\* templates[key], for a key of the dict.
TemplateOf(templates, key) ==
    templates[CHOOSE i \in DOMAIN templates : templates[i].key = key].tmpl

\* A fbx_data_from_scene whose Model template counts each exported object
\* once.
fbx_data_from_scene_model_per_object(scene, object_types, global_matrix, global_scale) ==
    LET IsExported(obj) == obj.type \in object_types
        IsCamera(obj) == obj.type = "CAMERA"
        IsMesh(obj) == obj.type = "MESH"
        objects == SelectSeq(scene.objects, IsExported)
        data_cameras == SelectSeq(objects, IsCamera)
        data_meshes == DedupByData(SelectSeq(objects, IsMesh), {})
        templates ==
            <<[key |-> "GlobalSettings",
               tmpl |-> fbx_template_def_globalsettings(<<>>, 1)]>>
            \o (IF objects # <<>>
                THEN <<[key |-> "Model",
                        tmpl |-> fbx_template_def_model(
                                    <<>>, Len(objects))]>>
                ELSE <<>>)
            \o (IF data_cameras # <<>>
                THEN <<[key |-> "NodeAttribute::Camera",
                        tmpl |-> fbx_template_def_nodeattribute_camera(
                                    <<>>, Len(data_cameras))],
                       [key |-> "NodeAttribute::CameraSwitcher",
                        tmpl |-> fbx_template_def_nodeattribute_cameraswitcher(
                                    <<>>, Len(data_cameras))]>>
                ELSE <<>>)
            \o (IF data_meshes # <<>>
                THEN <<[key |-> "Geometry",
                        tmpl |-> fbx_template_def_geometry(<<>>, Len(data_meshes))]>>
                ELSE <<>>)
    IN  [templates |-> templates,
         templates_users |-> SumUsers(templates),
         global_matrix |-> global_matrix,
         global_scale |-> global_scale,
         scene |-> scene,
         objects |-> [i \in DOMAIN objects |->
                        [obj |-> objects[i], key |-> get_blenderID_key(objects[i])]],
         data_cameras |-> [i \in DOMAIN data_cameras |->
                        [obj |-> data_cameras[i],
                         keys |-> get_blender_camera_keys(data_cameras[i].data)]],
         data_meshes |-> [i \in DOMAIN data_meshes |->
                        [data |-> data_meshes[i],
                         key |-> get_blenderID_key(data_meshes[i])]]]

\* What fbx_data_from_scene raises: obj.data is None for an object without
\* data block, and get_blenderID_key(None), reached from lines 604 and 605,
\* fails on None.rna_type (line 132).
fbx_data_from_scene_exc(scene, object_types) ==
    IF \E i \in DOMAIN scene.objects :
          /\ scene.objects[i].type \in object_types
          /\ scene.objects[i].type \in {"CAMERA", "MESH"}
          /\ scene.objects[i].data = NoData
    THEN "AttributeError"
    ELSE "none"

\* fbx_data_from_scene(scene, object_types, global_matrix, global_scale),
\* lines 592-625, when it does not raise. Each dict is the sequence of its
\* items in insertion order, which is the order it is iterated in.
fbx_data_from_scene(scene, object_types, global_matrix, global_scale) ==
    LET IsExported(obj) == obj.type \in object_types
        IsCamera(obj) == obj.type = "CAMERA"
        IsMesh(obj) == obj.type = "MESH"
        objects == SelectSeq(scene.objects, IsExported)
        data_cameras == SelectSeq(objects, IsCamera)
        data_meshes == DedupByData(SelectSeq(objects, IsMesh), {})
        templates ==
            <<[key |-> "GlobalSettings",
               tmpl |-> fbx_template_def_globalsettings(<<>>, 1)]>>
            \o (IF objects # <<>>
                THEN <<[key |-> "Model",
                        tmpl |-> fbx_template_def_model(
                                    <<>>, Len(objects) + Len(data_cameras))]>>
                ELSE <<>>)
            \o (IF data_cameras # <<>>
                THEN <<[key |-> "NodeAttribute::Camera",
                        tmpl |-> fbx_template_def_nodeattribute_camera(
                                    <<>>, Len(data_cameras))],
                       [key |-> "NodeAttribute::CameraSwitcher",
                        tmpl |-> fbx_template_def_nodeattribute_cameraswitcher(
                                    <<>>, Len(data_cameras))]>>
                ELSE <<>>)
            \o (IF data_meshes # <<>>
                THEN <<[key |-> "Geometry",
                        tmpl |-> fbx_template_def_geometry(<<>>, Len(data_meshes))]>>
                ELSE <<>>)
    IN  [templates |-> templates,
         templates_users |-> SumUsers(templates),
         global_matrix |-> global_matrix,
         global_scale |-> global_scale,
         scene |-> scene,
         objects |-> [i \in DOMAIN objects |->
                        [obj |-> objects[i], key |-> get_blenderID_key(objects[i])]],
         data_cameras |-> [i \in DOMAIN data_cameras |->
                        [obj |-> data_cameras[i],
                         keys |-> get_blender_camera_keys(data_cameras[i].data)]],
         data_meshes |-> [i \in DOMAIN data_meshes |->
                        [data |-> data_meshes[i],
                         key |-> get_blenderID_key(data_meshes[i])]]]

(***************************************************************************)
(* Top-level FBX elements generators (lines 628-769).                      *)
(***************************************************************************)
FBX_VERSION == 7300
FBX_HEADER_VERSION == 1003
FBX_TEMPLATES_VERSION == 100

PyInt(n) == Num(ToString(n))

\* "{:02}", "{:03}" and "{:04}" of str.format, for n >= 0.
Fmt02(n) == IF n < 10 THEN "0" \o ToString(n) ELSE ToString(n)
Fmt03(n) == IF n < 10 THEN "00" \o ToString(n)
            ELSE IF n < 100 THEN "0" \o ToString(n) ELSE ToString(n)
Fmt04(n) == IF n < 1000 THEN "0" \o Fmt03(n) ELSE ToString(n)

\* bpy.app.version_string, read at lines 657 and 672.
bpy_app_version_string == "2.68 (sub 0)"

\* The sub-elements added to a new element, in order.
WithElems(elem, subs) == [elem EXCEPT !.elems = @ \o subs]

\* The None of time=None.
NoTime == [year |-> 0, month |-> 0, day |-> 0, hour |-> 0, minute |-> 0,
           second |-> 0, microsecond |-> 0]

\* A fbx_header_elements whose GlobalSettings comes before Creator.
fbx_header_elements_swapped(root, time, now) ==
    WithElems(root, <<
        FBXElem("FBXHeaderExtension"),
        data_single("FileId", Bytes("FooBar"), "add_bytes"),
        data_single("CreationTime", Str(""), "add_string_unicode"),
        FBXElem("GlobalSettings"),
        data_single("Creator", Str("Blender version " \o bpy_app_version_string),
                    "add_string_unicode")>>)

\* fbx_header_elements(root, time=None), lines 630-694: root after the call;
\* now is what datetime.datetime.now() returns.
fbx_header_elements(root, time, now) ==
    LET t == IF time = NoTime THEN now ELSE time
        stamp == WithElems(FBXElem("CreationTimeStamp"), <<
            data_single("Version", PyInt(1000), "add_int32"),
            data_single("Year", PyInt(t.year), "add_int32"),
            data_single("Month", PyInt(t.month), "add_int32"),
            data_single("Day", PyInt(t.day), "add_int32"),
            data_single("Hour", PyInt(t.hour), "add_int32"),
            data_single("Minute", PyInt(t.minute), "add_int32"),
            data_single("Second", PyInt(t.second), "add_int32"),
            data_single("Millisecond", PyInt(t.microsecond * 1000), "add_int32")>>)
        creator == data_single("Creator",
                       Str("Blender version " \o bpy_app_version_string),
                       "add_string_unicode")
        header_ext == WithElems(FBXElem("FBXHeaderExtension"), <<
            data_single("FBXHeaderVersion", PyInt(FBX_HEADER_VERSION), "add_int32"),
            data_single("FBXVersion", PyInt(FBX_VERSION), "add_int32"),
            data_single("EncryptionType", PyInt(0), "add_int32"),
            stamp,
            creator>>)
        gs_props == PropsSetAll(elem_properties, <<
            Prop("UpAxis", PyInt(1), "p_integer"),
            Prop("UpAxisSign", PyInt(1), "p_integer"),
            Prop("FrontAxis", PyInt(2), "p_integer"),
            Prop("FrontAxisSign", PyInt(1), "p_integer"),
            Prop("CoordAxis", PyInt(0), "p_integer"),
            Prop("CoordAxisSign", PyInt(1), "p_integer"),
            Prop("UnitScaleFactor", Num("1"), "p_number"),
            Prop("AmbientColor", Vec3("0", "0", "0"), "p_color_rgb"),
            Prop("DefaultCamera", Str(""), "p_string"),
            Prop("TimeMode", PyInt(11), "p_enum"),
            Prop("TimeSpanStart", PyInt(0), "p_timestamp"),
            Prop("TimeSpanStop", Num("479181389250"), "p_timestamp")>>)
        global_settings == WithElems(FBXElem("GlobalSettings"), <<
            data_single("Version", PyInt(1000), "add_int32"),
            gs_props>>)
    IN  WithElems(root, <<
            header_ext,
            data_single("FileId", Bytes("FooBar"), "add_bytes"),
            data_single("CreationTime",
                Str(Fmt04(t.year) \o "-" \o Fmt02(t.month) \o "-" \o Fmt02(t.day)
                    \o " " \o Fmt02(t.hour) \o ":" \o Fmt02(t.minute) \o ":"
                    \o Fmt02(t.second) \o ":" \o Fmt03(t.microsecond * 1000)),
                "add_string_unicode"),
            creator,
            global_settings>>)

\* The key of line 708.
DocumentKey(name) == StrKey("__FBX_Document__" \o name)

\* A fbx_documents_elements that appends Documents twice.
fbx_documents_elements_twice(root, name, doc_uid) ==
    WithElems(root, <<FBXElem("Documents"), FBXElem("Documents")>>)

\* fbx_documents_elements(root, name=""), lines 697-719: root after the
\* call; doc_uid is what get_fbxuid_from_key returned at line 708.
fbx_documents_elements(root, name, doc_uid) ==
    LET doc_props == PropsSetAll(elem_properties, <<
            Prop("SourceObject", PyNone, "p_object"),
            Prop("ActiveAnimStackName", Str(""), "p_string")>>)
        doc == WithElems(
                 add(add(data_single("Document", PyInt(doc_uid), "add_int64"),
                         "add_string", Bytes("")),
                     "add_string_unicode", Str(name)),
                 <<doc_props, data_single("RootNode", PyInt(0), "add_int64")>>)
    IN  attach(root, WithElems(FBXElem("Documents"), <<
            data_single("Count", PyInt(1), "add_int32"),
            doc>>))

\* fbx_references_elements(root), lines 722-726.
fbx_references_elements(root) == elem_empty(root, "References")

\* fbx_definitions_elements(root, scene_data), lines 729-739.
RECURSIVE GenerateAll(_, _)
GenerateAll(definitions, templates) ==
    IF templates = <<>> THEN definitions
    ELSE GenerateAll(fbx_template_generate(definitions, Head(templates).tmpl),
                     Tail(templates))

fbx_definitions_elements(root, scene_data) ==
    attach(root,
        GenerateAll(
            WithElems(FBXElem("Definitions"), <<
                data_single("Version", PyInt(FBX_TEMPLATES_VERSION), "add_int32"),
                data_single("Count", PyInt(scene_data.templates_users), "add_int32")>>),
            scene_data.templates))

(***************************************************************************)
(* FBX objects generators (lines 444-575). Floating-point values derived   *)
(* from an object or a camera are held as terms over the names of the      *)
(* object and of its data block: equal inputs give equal terms, and a term *)
(* differs from every literal default of a template.                       *)
(***************************************************************************)
\* units_convert(val, u_from, u_to), lines 69-75, of a scalar term.
units_convert(val, u_from, u_to) ==
    "(" \o val \o " * UNITS[" \o u_to \o "] / UNITS[" \o u_from \o "])"

\* object_tx(ob, scene_data), lines 446-468, for an object without parent:
\* the location and the rotation matrix of matrix_world, the latter times
\* MTX_X90 for a lamp or a camera.
object_tx(ob, scene_data) ==
    LET rot == IF ob.type \in {"LAMP", "CAMERA"}
               THEN "(" \o ob.name \o ".matrix_world.rot * MTX_X90)"
               ELSE ob.name \o ".matrix_world.rot"
    IN  [loc |-> Vec3(ob.name \o ".matrix_world.loc[0]",
                      ob.name \o ".matrix_world.loc[1]",
                      ob.name \o ".matrix_world.loc[2]"),
         matrix_rot |-> rot]

\* matrix_rot * Vector(v), lines 517-518.
MatVec(matrix_rot, v) ==
    Vec3("(" \o matrix_rot \o " * " \o v \o ")[0]",
         "(" \o matrix_rot \o " * " \o v \o ")[1]",
         "(" \o matrix_rot \o " * " \o v \o ")[2]")

\* fbx_name_class(name, cls), lines 488-489; the separator is \x00\x01.
FBX_NAME_CLASS_SEP == "\\x00\\x01"
fbx_name_class(name, cls) == name \o FBX_NAME_CLASS_SEP \o cls

\* elem_props_template_set for each item, in order, up to the first call
\* that raises: the container and the exception, if any.
RECURSIVE TemplateSetAll(_, _, _)
TemplateSetAll(template, container, items) ==
    IF items = <<>> THEN [elem |-> container, exc |-> "none"]
    ELSE LET r == elem_props_template_set(template, container, Head(items).ptype,
                                          Head(items).name, Head(items).value)
         IN  IF r.exc # "none" THEN r
             ELSE TemplateSetAll(template, r.elem, Tail(items))

\* fbx_data_cameras_elements(root, cam_obj, scene_data), lines 492-575: root
\* after the call and the exception raised, if any; the two UIDs are those
\* get_fbxuid_from_key returned at lines 500 and 533.
fbx_data_cameras_elements(root, cam_obj, scene_data, switcher_uid, cam_uid) ==
    LET cam_data == cam_obj.data
        d == cam_data.name
        tmpl_sw == TemplateOf(scene_data.templates, "NodeAttribute::CameraSwitcher")
        props_sw == TemplateSetAll(tmpl_sw, elem_properties,
                        <<Prop("Camera Index", PyInt(100), "p_integer")>>)
        cam_switcher == WithElems(
            add(add(data_single("NodeAttribute", PyInt(switcher_uid), "add_int64"),
                    "add_string", Bytes(fbx_name_class("", "NodeAttribute"))),
                "add_string", Bytes("CameraSwitcher")),
            <<props_sw.elem,
              data_single("Version", PyInt(101), "add_int32"),
              data_single("Name", Str(d \o " switcher"), "add_string_unicode"),
              data_single("CameraID", PyInt(100), "add_int32"),
              data_single("CameraName", PyInt(100), "add_int32"),
              FBXElem("CameraIndexName")>>)
        tx == object_tx(cam_obj, scene_data)
        loc == tx.loc
        up == MatVec(tx.matrix_rot, "Vector((0.0, 1.0, 0.0))")
        to == MatVec(tx.matrix_rot, "Vector((0.0, 0.0, -1.0))")
        aspect == "(render.resolution_x / render.resolution_y)"
        filmwidth == units_convert(d \o ".sensor_width", "millimeter", "inch")
        filmheight == units_convert(d \o ".sensor_height", "millimeter", "inch")
        filmaspect == "(" \o filmwidth \o " / " \o filmheight \o ")"
        offsetx == "(" \o filmwidth \o " * " \o d \o ".shift_x)"
        offsety == "(" \o filmaspect \o " * " \o filmheight \o " * " \o d
                   \o ".shift_y)"
        scaled(x) == "(" \o d \o "." \o x \o " * " \o scene_data.global_scale \o ")"
        tmpl_cam == TemplateOf(scene_data.templates, "NodeAttribute::Camera")
        cam_props == TemplateSetAll(tmpl_cam, elem_properties, <<
            Prop("Position", loc, "p_vector_3d"),
            Prop("UpVector", up, "p_vector_3d"),
            Prop("InterestPosition", to, "p_vector_3d"),
            Prop("BackgroundColor", Vec3("0", "0", "0"), "p_color_rgb"),
            Prop("DisplayTurnTableIcon", Num("1"), "p_bool"),
            Prop("FilmWidth", Num(filmwidth), "p_number"),
            Prop("FilmHeight", Num(filmheight), "p_number"),
            Prop("FilmAspectRatio", Num(filmaspect), "p_number"),
            Prop("FilmOffsetX", Num(offsetx), "p_number"),
            Prop("FilmOffsetY", Num(offsety), "p_number"),
            Prop("ApertureMode", PyInt(3), "p_enum"),
            Prop("GateFit", PyInt(2), "p_enum"),
            Prop("FieldOfView", Num("math.degrees(" \o d \o ".angle_x)"), "p_fov"),
            Prop("FieldOfViewX", Num("math.degrees(" \o d \o ".angle_x)"), "p_fov_x"),
            Prop("FieldOfViewY", Num("math.degrees(" \o d \o ".angle_y)"), "p_fov_y"),
            Prop("FocalLength", Num(d \o ".lens"), "p_number"),
            Prop("SafeAreaAspectRatio", Num(aspect), "p_number"),
            Prop("NearPlane", Num(scaled("clip_start")), "p_number"),
            Prop("FarPlane", Num(scaled("clip_end")), "p_number"),
            Prop("BackPlaneDistanceMode", PyInt(1), "p_enum"),
            Prop("BackPlaneDistance", Num(scaled("clip_end")), "p_number")>>)
        cam == WithElems(
            add(add(data_single("NodeAttribute", PyInt(cam_uid), "add_int64"),
                    "add_string", Bytes(fbx_name_class("", "NodeAttribute"))),
                "add_string", Bytes("Camera")),
            <<cam_props.elem,
              data_single("TypeFlags", Bytes("Camera"), "add_string"),
              data_single("GeometryVersion", PyInt(124), "add_int32"),
              data_vec("Position", loc, "add_float64"),
              data_vec("Up", up, "add_float64"),
              data_vec("LookAt", to, "add_float64"),
              data_single("ShowInfoOnMoving", PyInt(1), "add_int32"),
              data_single("ShowAudio", PyInt(0), "add_int32"),
              data_vec("AudioColor", Vec3("0", "1", "0"), "add_float64"),
              data_single("CameraOrthoZoom", Num("1"), "add_float64")>>)
    IN  [root |-> WithElems(root, <<cam_switcher, cam>>),
         exc |-> IF props_sw.exc # "none" THEN props_sw.exc ELSE cam_props.exc]

\* The loop of lines 748-749 over the items of data_cameras from index i on,
\* up to the first camera that raises: the Objects element, both maps after
\* each camera's two lookups, the last lookup made, and the exception, if
\* any; hs gives the hash of each key in this process. Each call's outcome
\* is bound as the one element of a set, so that it is computed once.
RECURSIVE CamerasLoop(_, _, _, _, _, _, _)
CamerasLoop(objects, scene_data, i, fwd, rev, call, hs) ==
    IF i > Len(scene_data.data_cameras)
    THEN [elem |-> objects, fwd |-> fwd, rev |-> rev, call |-> call,
          exc |-> "none"]
    ELSE LET item == scene_data.data_cameras[i]
             ks == StrKey(item.keys[2])
             kc == StrKey(item.keys[1])
             AfterCamera(r2, c) ==
                IF c.exc # "none"
                THEN [elem |-> c.root, fwd |-> r2.fwd, rev |-> r2.rev,
                      call |-> r2.call, exc |-> c.exc]
                ELSE CamerasLoop(c.root, scene_data, i + 1, r2.fwd, r2.rev,
                                 r2.call, hs)
             AfterCamKey(r1, r2) ==
                CHOOSE out \in
                    {AfterCamera(r2, c) :
                        c \in {fbx_data_cameras_elements(
                                  objects, item.obj, scene_data,
                                  r1.call.uid, r2.call.uid)}} : TRUE
             AfterSwitcherKey(r1) ==
                CHOOSE out \in
                    {AfterCamKey(r1, r2) :
                        r2 \in {get_fbxuid_from_key(r1.fwd, r1.rev, kc, hs[kc])}} :
                    TRUE
         IN  CHOOSE out \in
                {AfterSwitcherKey(r1) :
                    r1 \in {get_fbxuid_from_key(fwd, rev, ks, hs[ks])}} : TRUE

\* A fbx_objects_elements that leaves the records of the Objects element in
\* the reverse of the order they were written in.
fbx_objects_elements_reversed(root, scene_data, fwd, rev, call, hs) ==
    CHOOSE out \in
        {[root |-> attach(root,
                      [r.elem EXCEPT !.elems =
                          [i \in DOMAIN r.elem.elems |->
                              r.elem.elems[Len(r.elem.elems) + 1 - i]]]),
          fwd |-> r.fwd, rev |-> r.rev, call |-> r.call, exc |-> r.exc] :
            r \in {CamerasLoop(FBXElem("Objects"), scene_data, 1, fwd, rev,
                               call, hs)}} : TRUE

\* fbx_objects_elements(root, scene_data), lines 742-755: root and both maps
\* after the call, the last lookup made, and the exception raised, if any.
\* The loops over data_meshes and objects write nothing.
fbx_objects_elements(root, scene_data, fwd, rev, call, hs) ==
    CHOOSE out \in
        {[root |-> attach(root, r.elem), fwd |-> r.fwd, rev |-> r.rev,
          call |-> r.call, exc |-> r.exc] :
            r \in {CamerasLoop(FBXElem("Objects"), scene_data, 1, fwd, rev,
                               call, hs)}} : TRUE

\* fbx_connections_elements(root, scene_data), lines 758-762.
fbx_connections_elements(root, scene_data) == elem_empty(root, "Connections")

\* fbx_takes_elements(root, scene_data), lines 765-769.
fbx_takes_elements(root, scene_data) == elem_empty(root, "Takes")

------------------------------------------------------------------------------
(***************************************************************************)
(* Specifications.                                                         *)
(***************************************************************************)
EmptyMap == [x \in {} |-> 0]

NoPCall == [op |-> "none", ptype_name |-> "", name |-> "", value |-> PyNone,
            exc |-> "none", before |-> <<>>]

\* The state of each part before anything has run.
UidIdle ==
    /\ keys_to_uids = EmptyMap
    /\ uids_to_keys = EmptyMap
    /\ last = NoCall
PropsIdle ==
    /\ tmpl = fbx_template_def_nodeattribute_camera(<<>>, 0)
    /\ props = elem_properties
    /\ pcall = NoPCall

(***************************************************************************)
(* Spec: save_single run again and again in one process, as the batch loop *)
(* of save does (lines 903-934) and as successive exports of one session   *)
(* do. One step per section writer; the registry is the module's, the root *)
(* and the scene data are locals of the run.                               *)
(***************************************************************************)
\* The objects a scene is made of, in the order of bpy.data.objects; an
\* armature is not among the exported types.
ObjectChoices == <<
    Object("Camera", "CAMERA", DataBlock("Camera", "Camera")),
    Object("Camera.001", "CAMERA", DataBlock("Camera.001", "Camera")),
    Object("Cube", "MESH", DataBlock("Cube", "Mesh")),
    Object("Empty", "EMPTY", NoData),
    Object("Armature", "ARMATURE", DataBlock("Armature", "Armature"))>>

SceneName == "Scene"

\* The orders scene.objects lists its objects in: that of ObjectChoices or
\* its reverse.
ObjectOrders ==
    {q \in UNION {[1 .. n -> DOMAIN ObjectChoices] : n \in 0 .. MaxObjects} :
        \/ \A i, j \in DOMAIN q : i < j => q[i] < q[j]
        \/ \A i, j \in DOMAIN q : i < j => q[i] > q[j]}

\* A scene: a name and up to MaxObjects distinct objects.
Scenes ==
    {[name |-> SceneName, objects |-> [i \in DOMAIN q |-> ObjectChoices[q[i]]]] :
        q \in ObjectOrders}

\* What datetime.datetime.now() can return at line 646.
Times == {
    [year |-> 2013, month |-> 7, day |-> 9, hour |-> 8, minute |-> 5,
     second |-> 3, microsecond |-> 0],
    [year |-> 2013, month |-> 12, day |-> 31, hour |-> 23, minute |-> 59,
     second |-> 59, microsecond |-> 999]}

\* The str hashes the run is driven with: one negative, and few enough for
\* two keys to collide.
ExportHashes == {-2, 0}

\* object_types as line 794 sets it, whatever the caller passed.
object_types == {"EMPTY", "CAMERA", "LAMP", "MESH"}

\* global_matrix=MTX_GLOB (line 776) and its median_scale (line 801).
MTX_GLOB == "Matrix()"
median_scale(matrix) == matrix \o ".median_scale"

\* The locals of save_single when no run is under way.
NoScene == [name |-> "", objects |-> <<>>]
NoSceneData == fbx_data_from_scene(NoScene, {}, MTX_GLOB,
                                   median_scale(MTX_GLOB))
NoRoot == FBXElem("")

ExportIdle ==
    /\ pc = "idle"
    /\ fbx_scene = NoScene
    /\ fbx_scene_data = NoSceneData
    /\ fbx_root = NoRoot
    /\ runs = 0
    /\ ret = "none"

(***************************************************************************)
(* SpecUid: the registry driven by any sequence of lookups.                *)
(***************************************************************************)
\* The keys SpecUid drives the registry with.
IntKeys == {IntKey(i) : i \in (-KeySpan) .. (UidLimit - 1 + KeySpan)}
StrKeys == {StrKey("a"), StrKey("b")}
Keys == IntKeys \cup StrKeys

UidInit == UidIdle /\ PropsIdle /\ ExportIdle

\* One call of get_fbxuid_from_key(key).
GetFbxuidFromKey(key) ==
    /\ key \in DOMAIN keys_to_uids \/ Cardinality(DOMAIN keys_to_uids) < MaxKeys
    /\ \E h \in HashesOf(key) :
         LET r == get_fbxuid_from_key(keys_to_uids, uids_to_keys, key, h)
         IN  /\ keys_to_uids' = r.fwd
             /\ uids_to_keys' = r.rev
             /\ last' = r.call
    /\ UNCHANGED <<propVars, exportVars>>

UidNext == \E key \in Keys : GetFbxuidFromKey(key)

SpecUid == UidInit /\ [][UidNext]_vars

(***************************************************************************)
(* SpecProps: elem_props_set and elem_props_template_set driven on one     *)
(* Properties70 container, against a template that stores nothing or one   *)
(* default under the name the calls use.                                   *)
(***************************************************************************)
PropName == "FieldOfView"

\* A value fit for a kind: what its encoders take.
ValueFor(ptype_name) ==
    LET ptype == FBX_PROPERTIES_DEFINITIONS[ptype_name]
    IN  IF Len(ptype) > 4 THEN Vec3("0", "0", "0")
        ELSE IF Len(ptype) < 4 THEN PyNone
        ELSE IF ptype[4] = "add_string_unicode" THEN Str("a")
        ELSE Num("1")
\* Another value fit for the kind (p_object takes none but None).
OtherValueFor(ptype_name) ==
    LET ptype == FBX_PROPERTIES_DEFINITIONS[ptype_name]
    IN  IF Len(ptype) > 4 THEN Vec3("0", "0", "1")
        ELSE IF Len(ptype) < 4 THEN PyNone
        ELSE IF ptype[4] = "add_string_unicode" THEN Str("")
        ELSE Num("0")

\* The override_defaults the template is built with.
Overrides ==
    {<<>>} \cup
    {<<Prop(PropName, ValueFor(k), k)>> : k \in PropertyKinds} \cup
    {<<Prop(PropName, OtherValueFor(k), k)>> : k \in PropertyKinds}

PropsInit ==
    /\ UidIdle
    /\ \E ov \in Overrides :
          tmpl = fbx_template_def_nodeattribute_camera(ov, 1)
    /\ props = elem_properties
    /\ pcall = NoPCall
    /\ ExportIdle

\* One call of elem_props_set(props, ptype_name, PropName, value).
ElemPropsSet(ptype_name) ==
    /\ Len(props.elems) < MaxProps
    /\ LET value == ValueFor(ptype_name)
           r == elem_props_set(props, ptype_name, PropName, value)
       IN  /\ props' = r.elem
           /\ pcall' = [op |-> "elem_props_set", ptype_name |-> ptype_name,
                        name |-> PropName, value |-> value, exc |-> r.exc,
                        before |-> props.elems]
    /\ UNCHANGED <<tmpl, uidVars, exportVars>>

\* One call of elem_props_template_set(tmpl, props, ptype_name, PropName, value).
ElemPropsTemplateSet(ptype_name) ==
    /\ Len(props.elems) < MaxProps
    /\ LET value == ValueFor(ptype_name)
           r == elem_props_template_set(tmpl, props, ptype_name, PropName, value)
       IN  /\ props' = r.elem
           /\ pcall' = [op |-> "elem_props_template_set",
                        ptype_name |-> ptype_name, name |-> PropName,
                        value |-> value, exc |-> r.exc, before |-> props.elems]
    /\ UNCHANGED <<tmpl, uidVars, exportVars>>

PropsNext ==
    \E k \in PropertyKinds : ElemPropsSet(k) \/ ElemPropsTemplateSet(k)

SpecProps == PropsInit /\ [][PropsNext]_vars

(***************************************************************************)
(* The steps of save_single.                                               *)
(***************************************************************************)
Init == UidIdle /\ PropsIdle /\ ExportIdle

\* save_single(operator, scene, filepath) is called, line 775.
SaveSingleBegin(scene) ==
    /\ pc = "idle"
    /\ runs < MaxRuns
    /\ fbx_scene' = scene
    /\ pc' = "scene_data"
    /\ UNCHANGED <<fbx_scene_data, fbx_root, runs, ret, uidVars, propVars>>

\* save_single left by an exception: its locals are gone.
Raised(exc) ==
    /\ fbx_scene' = NoScene
    /\ fbx_scene_data' = NoSceneData
    /\ fbx_root' = NoRoot
    /\ pc' = "idle"
    /\ runs' = runs + 1
    /\ ret' = exc

\* lines 811-813: fbx_data_from_scene(scene, object_types, global_matrix,
\* global_scale) and the new root.
FbxDataFromScene ==
    /\ pc = "scene_data"
    /\ LET exc == fbx_data_from_scene_exc(fbx_scene, object_types)
       IN  IF exc = "none"
           THEN /\ fbx_scene_data' = fbx_data_from_scene(
                        fbx_scene, object_types, MTX_GLOB,
                        median_scale(MTX_GLOB))
                /\ fbx_root' = elem_empty_none("")
                /\ pc' = "header"
                /\ UNCHANGED <<fbx_scene, runs, ret>>
           ELSE Raised(exc)
    /\ UNCHANGED <<uidVars, propVars>>

\* line 816: fbx_header_elements(root)
FbxHeaderElements ==
    /\ pc = "header"
    /\ \E now \in Times : fbx_root' = fbx_header_elements(fbx_root, NoTime, now)
    /\ pc' = "documents"
    /\ UNCHANGED <<fbx_scene, fbx_scene_data, runs, ret, uidVars, propVars>>

\* line 819: fbx_documents_elements(root, scene.name)
FbxDocumentsElements ==
    /\ pc = "documents"
    /\ \E h \in ExportHashes :
       \E r \in {get_fbxuid_from_key(keys_to_uids, uids_to_keys,
                      DocumentKey(fbx_scene_data.scene.name), h)} :
          /\ keys_to_uids' = r.fwd
          /\ uids_to_keys' = r.rev
          /\ last' = r.call
          /\ fbx_root' = fbx_documents_elements(
                            fbx_root, fbx_scene_data.scene.name, r.call.uid)
    /\ pc' = "references"
    /\ UNCHANGED <<fbx_scene, fbx_scene_data, runs, ret, propVars>>

\* line 820: fbx_references_elements(root)
FbxReferencesElements ==
    /\ pc = "references"
    /\ fbx_root' = fbx_references_elements(fbx_root)
    /\ pc' = "definitions"
    /\ UNCHANGED <<fbx_scene, fbx_scene_data, runs, ret, uidVars, propVars>>

\* line 823: fbx_definitions_elements(root, scene_data)
FbxDefinitionsElements ==
    /\ pc = "definitions"
    /\ fbx_root' = fbx_definitions_elements(fbx_root, fbx_scene_data)
    /\ pc' = "objects"
    /\ UNCHANGED <<fbx_scene, fbx_scene_data, runs, ret, uidVars, propVars>>

\* The keys fbx_objects_elements looks up.
CameraKeys(scene_data) ==
    {StrKey(scene_data.data_cameras[i].keys[j]) :
        i \in DOMAIN scene_data.data_cameras, j \in 1 .. 2}

\* line 826: fbx_objects_elements(root, scene_data).
FbxObjectsElements ==
    /\ pc = "objects"
    /\ \E hs \in [CameraKeys(fbx_scene_data) -> ExportHashes] :
       \E r \in {fbx_objects_elements(fbx_root, fbx_scene_data, keys_to_uids,
                                      uids_to_keys, last, hs)} :
          /\ keys_to_uids' = r.fwd
          /\ uids_to_keys' = r.rev
          /\ last' = r.call
          /\ IF r.exc = "none"
             THEN /\ fbx_root' = r.root
                  /\ pc' = "connections"
                  /\ UNCHANGED <<fbx_scene, fbx_scene_data, runs, ret>>
             ELSE Raised(r.exc)
    /\ UNCHANGED propVars

\* line 829: fbx_connections_elements(root, scene_data)
FbxConnectionsElements ==
    /\ pc = "connections"
    /\ fbx_root' = fbx_connections_elements(fbx_root, fbx_scene_data)
    /\ pc' = "takes"
    /\ UNCHANGED <<fbx_scene, fbx_scene_data, runs, ret, uidVars, propVars>>

\* line 832: fbx_takes_elements(root, scene_data)
FbxTakesElements ==
    /\ pc = "takes"
    /\ fbx_root' = fbx_takes_elements(fbx_root, fbx_scene_data)
    /\ pc' = "encode"
    /\ UNCHANGED <<fbx_scene, fbx_scene_data, runs, ret, uidVars, propVars>>

\* lines 835-841: encode_bin.write(filepath, root, FBX_VERSION) and the
\* return; the locals of the run are gone, the registry stays.
EncodeBinWrite ==
    /\ pc = "encode"
    /\ fbx_scene' = NoScene
    /\ fbx_scene_data' = NoSceneData
    /\ fbx_root' = NoRoot
    /\ pc' = "idle"
    /\ runs' = runs + 1
    /\ ret' = "FINISHED"
    /\ UNCHANGED <<uidVars, propVars>>

Next ==
    \/ \E scene \in Scenes : SaveSingleBegin(scene)
    \/ FbxDataFromScene
    \/ FbxHeaderElements
    \/ FbxDocumentsElements
    \/ FbxReferencesElements
    \/ FbxDefinitionsElements
    \/ FbxObjectsElements
    \/ FbxConnectionsElements
    \/ FbxTakesElements
    \/ EncodeBinWrite

Spec == Init /\ [][Next]_vars

(***************************************************************************)
(* SpecScene: one save_single run in a fresh process, over scenes drawn    *)
(* from a wider population: cameras and meshes that share a data block, a  *)
(* lamp, and a camera whose data block is missing.                         *)
(***************************************************************************)
MaxPopulation == 2

PopulationChoices == <<
    Object("Camera", "CAMERA", DataBlock("Camera", "Camera")),
    Object("Camera.001", "CAMERA", DataBlock("Camera", "Camera")),
    Object("Camera.002", "CAMERA", DataBlock("Camera.002", "Camera")),
    Object("Camera.003", "CAMERA", NoData),
    Object("Cube", "MESH", DataBlock("Cube", "Mesh")),
    Object("Cube.001", "MESH", DataBlock("Cube", "Mesh")),
    Object("Lamp", "LAMP", DataBlock("Lamp", "Lamp")),
    Object("Empty", "EMPTY", NoData),
    Object("Armature", "ARMATURE", DataBlock("Armature", "Armature"))>>

PopulationOrders ==
    {q \in UNION {[1 .. n -> DOMAIN PopulationChoices] :
                      n \in 0 .. MaxPopulation} :
        \/ \A i, j \in DOMAIN q : i < j => q[i] < q[j]
        \/ \A i, j \in DOMAIN q : i < j => q[i] > q[j]}

PopulationScenes ==
    {[name |-> SceneName,
      objects |-> [i \in DOMAIN q |-> PopulationChoices[q[i]]]] :
        q \in PopulationOrders}

\* The one call of save_single of the process.
SaveSingleOnce(scene) ==
    /\ runs = 0
    /\ SaveSingleBegin(scene)

SceneNext ==
    \/ \E scene \in PopulationScenes : SaveSingleOnce(scene)
    \/ FbxDataFromScene
    \/ FbxHeaderElements
    \/ FbxDocumentsElements
    \/ FbxReferencesElements
    \/ FbxDefinitionsElements
    \/ FbxObjectsElements
    \/ FbxConnectionsElements
    \/ FbxTakesElements
    \/ EncodeBinWrite

SpecScene == Init /\ [][SceneNext]_vars

------------------------------------------------------------------------------
(***************************************************************************)
(* Claims about the UID registry, checked under SpecUid.                   *)
(***************************************************************************)

InUidRange(u) == 0 <= u /\ u < UidLimit

\* C1: after any sequence of get_fbxuid_from_key calls, two distinct keys
\* that have been looked up are mapped to distinct UIDs (the forward map is
\* injective), whatever the keys' integer values or hash values are.
C1_ForwardMapInjective ==
    \A k1, k2 \in DOMAIN keys_to_uids :
        k1 # k2 => keys_to_uids[k1] # keys_to_uids[k2]

\* C1's case: a new key whose candidate was already taken has been given a
\* UID by probing, beside at least two other keys.
C1_Witness ==
    /\ last.probed
    /\ ~last.raised
    /\ last.key \in DOMAIN keys_to_uids
    /\ Cardinality(DOMAIN keys_to_uids) >= 3

\* C2: a lookup of a key that was looked up before returns the UID of the
\* first call, whatever was looked up in between, and changes neither map:
\* on every step the call on a known key returns the stored UID and leaves
\* both maps as they are, and no step changes the UID stored for a key.
C2_RepeatLookupSameUid ==
    [][\A k \in DOMAIN keys_to_uids :
          /\ k \in DOMAIN keys_to_uids'
          /\ keys_to_uids'[k] = keys_to_uids[k]
          /\ last'.key = k =>
                /\ last'.uid = keys_to_uids[k]
                /\ ~last'.raised
                /\ keys_to_uids' = keys_to_uids
                /\ uids_to_keys' = uids_to_keys]_vars

\* C2's case: a key was looked up again after other keys had been looked up,
\* one of them by probing past this key's UID.
C2_Witness ==
    /\ last.hit
    /\ Cardinality(DOMAIN keys_to_uids) >= 3
    /\ \E k \in DOMAIN keys_to_uids :
          k # last.key /\ keys_to_uids[k] = last.uid + 1

\* C3 as stated: a lookup of an integer key k with 0 <= k < 2^64 returns k,
\* after any preceding sequence of lookups of other keys.
C3_Original ==
    (last.key.t = "int" /\ IsDirectKey(last.key) /\ ~last.raised)
        => last.uid = last.key.i

\* C3 as amended: the first lookup of an integer key k with 0 <= k < 2^64
\* returns k provided no earlier lookup was given the UID k.
C3_DirectKeyVerbatimIfFree ==
    [][\A k \in IntKeys :
          (/\ IsDirectKey(k)
           /\ last'.key = k
           /\ k \notin DOMAIN keys_to_uids
           /\ k.i \notin DOMAIN uids_to_keys)
          => (/\ ~last'.raised
              /\ last'.uid = k.i
              /\ k \in DOMAIN keys_to_uids'
              /\ keys_to_uids'[k] = k.i)]_vars

\* C3's case: an in-range integer key was looked up after keys that were
\* given other UIDs, and got its own value.
C3_Witness ==
    /\ IsDirectKey(last.key)
    /\ ~last.hit
    /\ last.uid = last.key.i
    /\ \E k \in DOMAIN keys_to_uids : k.t = "str"
    /\ Cardinality(DOMAIN keys_to_uids) >= 3

\* C4: when probing leaves [0, 2^64) without having found an unused value
\* the lookup fails with ValueError; no value outside that range that was
\* reached by probing is returned.
C4_ProbeOutsideRaises ==
    (last.probed /\ ~InUidRange(last.uid)) => last.raised

------------------------------------------------------------------------------
(***************************************************************************)
(* Claims about the property writers, checked under SpecProps.             *)
(***************************************************************************)

\* The container as it was before the last call.
PropsBefore == [props EXCEPT !.elems = pcall.before]
\* The default the template stores under the name of the last call.
Stored == DictGet(tmpl.properties, pcall.name)
HasStored == pcall.name \in DictKeys(tmpl.properties)

\* C6: for every kind of the catalog (single-encoder, three-encoder and the
\* value-less p_object), when the template stores the name with the same
\* kind name and an equal value, elem_props_template_set appends nothing.
C6_DefaultEqualWritesNothing ==
    (/\ pcall.op = "elem_props_template_set"
     /\ HasStored
     /\ Stored.ptype = pcall.ptype_name
     /\ Stored.value = pcall.value)
    => (pcall.exc = "none" /\ props.elems = pcall.before)

\* C7: when the name is absent from the template, or the stored kind differs
\* from the requested kind name, or the stored value differs from the given
\* value, elem_props_template_set appends exactly one P element, the one
\* elem_props_set appends for the same kind, name and value; for every
\* pairing of stored default and requested kind.
C7_OtherwiseSameAsPropsSet ==
    (/\ pcall.op = "elem_props_template_set"
     /\ \/ ~HasStored
        \/ Stored.ptype # pcall.ptype_name
        \/ Stored.value # pcall.value)
    => (/\ pcall.exc = "none"
        /\ Len(props.elems) = Len(pcall.before) + 1
        /\ props = elem_props_set(PropsBefore, pcall.ptype_name, pcall.name,
                                  pcall.value).elem)

\* C8: elem_props_set with a kind of the catalog (and a value fit for it)
\* appends exactly one child named P and leaves the existing children as
\* they were; the payload of P is the name, the kind's three tags, then one
\* encoded value per encoder of the kind, in that order.
C8_PropsSetAppendsOneP ==
    pcall.op = "elem_props_set" =>
        LET ptype == FBX_PROPERTIES_DEFINITIONS[pcall.ptype_name]
            n == Len(pcall.before)
            p == props.elems[n + 1]
            nenc == Len(ptype) - 3
        IN  /\ pcall.exc = "none"
            /\ Len(props.elems) = n + 1
            /\ SubSeq(props.elems, 1, n) = pcall.before
            /\ props.name = "Properties70" /\ props.payload = <<>>
            /\ p.name = "P" /\ p.elems = <<>>
            /\ Len(p.payload) = 4 + nenc
            /\ p.payload[1] = [enc |-> "add_string", val |-> Bytes(pcall.name)]
            /\ \A i \in 1 .. 3 :
                  p.payload[1 + i] = [enc |-> "add_string", val |-> Bytes(ptype[i])]
            /\ \A i \in 1 .. nenc :
                  /\ p.payload[4 + i].enc = ptype[3 + i]
                  /\ p.payload[4 + i].val =
                        IF nenc = 1 THEN pcall.value ELSE pcall.value.v[i]

\* C8's case: a three-encoder kind was written into a container that
\* already held a child.
C8_Witness ==
    /\ pcall.op = "elem_props_set"
    /\ pcall.before # <<>>
    /\ Len(FBX_PROPERTIES_DEFINITIONS[pcall.ptype_name]) = 6
    /\ Len(props.elems) = Len(pcall.before) + 1

------------------------------------------------------------------------------
(***************************************************************************)
(* Claims about save_single and the section writers, checked under Spec.   *)
(***************************************************************************)

\* C5: within one export run the forward map and the reverse map only grow
\* (no entry is removed or changed), and at the start of every save_single
\* run both maps hold no entry created by a previous save_single run.
C5_GrowOnlyAndClearedBetweenRuns ==
    [][/\ \A k \in DOMAIN keys_to_uids :
             k \in DOMAIN keys_to_uids' /\ keys_to_uids'[k] = keys_to_uids[k]
       /\ \A u \in DOMAIN uids_to_keys :
             u \in DOMAIN uids_to_keys' /\ uids_to_keys'[u] = uids_to_keys[u]
       /\ (pc = "idle" /\ pc' = "scene_data") =>
             (keys_to_uids' = EmptyMap /\ uids_to_keys' = EmptyMap)]_vars

\* The names of the root's children, in order.
RootNames == [i \in DOMAIN fbx_root.elems |-> fbx_root.elems[i].name]

\* C9: after save_single has run all section writers, the children of the
\* root are, in this order and with nothing else, FBXHeaderExtension, FileId,
\* CreationTime, Creator, GlobalSettings, Documents, References, Definitions,
\* Objects, Connections, Takes; the root itself has an empty name.
C9_RootChildrenInOrder ==
    pc = "encode" =>
        /\ RootNames = <<"FBXHeaderExtension", "FileId", "CreationTime",
                         "Creator", "GlobalSettings", "Documents",
                         "References", "Definitions", "Objects",
                         "Connections", "Takes">>
        /\ fbx_root.name = ""

\* C9's case: all writers have run on a scene with a camera, in a run that
\* is not the first of the process.
C9_Witness ==
    /\ pc = "encode"
    /\ runs >= 1
    /\ fbx_scene_data.data_cameras # <<>>
    /\ Len(fbx_root.elems) = 11

\* A step in which a section writer returned.
WriterStep ==
    /\ pc \in {"header", "documents", "references", "definitions", "objects",
               "connections", "takes"}
    /\ pc' \notin {pc, "idle"}

\* C10 as stated: each section writer appends exactly one child to the root
\* per call and does not modify the root's earlier children.
C10_Original ==
    [][WriterStep =>
          /\ Len(fbx_root'.elems) = Len(fbx_root.elems) + 1
          /\ SubSeq(fbx_root'.elems, 1, Len(fbx_root.elems)) = fbx_root.elems]_vars

\* C10 as amended: the Header writer appends exactly five children to the
\* root per call, each other section writer exactly one, and none modifies
\* the root's earlier children, name or payload.
C10_WritersAppendOnly ==
    [][WriterStep =>
          /\ Len(fbx_root'.elems) =
                Len(fbx_root.elems) + (IF pc = "header" THEN 5 ELSE 1)
          /\ SubSeq(fbx_root'.elems, 1, Len(fbx_root.elems)) = fbx_root.elems
          /\ fbx_root'.name = fbx_root.name
          /\ fbx_root'.payload = fbx_root.payload]_vars

\* C10's case: the Objects writer has returned after writing a camera, with
\* the eight children of the earlier writers before its own.
C10_Witness ==
    /\ pc = "connections"
    /\ Len(fbx_root.elems) = 9
    /\ fbx_root.elems[9].name = "Objects"
    /\ fbx_root.elems[9].elems # <<>>


------------------------------------------------------------------------------
(***************************************************************************)
(* Claims about the Definitions and Objects sections of one run, checked   *)
(* under SpecScene.                                                        *)
(***************************************************************************)
\* The first child of elem that has the given name.
SubElem(elem, name) ==
    elem.elems[CHOOSE i \in DOMAIN elem.elems :
                  /\ elem.elems[i].name = name
                  /\ \A j \in 1 .. i - 1 : elem.elems[j].name # name]

\* The child of root that a section writer appended under the given name.
Section(root, name) == SubElem(root, name)

\* Whether the run has written its Objects section without raising.
ObjectsWritten == pc \in {"connections", "takes", "encode"}

\* The template blocks of a Definitions element: its children after Version
\* and Count, one per call of fbx_template_generate.
TemplateBlocks(definitions) == SubSeq(definitions.elems, 3, Len(definitions.elems))

\* The class a record of the Objects section belongs to: its element name,
\* and for a NodeAttribute its subtype, the third item of its payload.
RecordClass(rec) ==
    IF rec.name = "NodeAttribute"
    THEN "NodeAttribute::" \o rec.payload[3].val.s
    ELSE rec.name

\* The records of class C among the children of an Objects element.
RecordsOfClass(objects, C) ==
    {i \in DOMAIN objects.elems : RecordClass(objects.elems[i]) = C}

\* C11: for every scene and every class C with a template, the Count written
\* for C in the Definitions section equals the number of C-class records
\* that fbx_objects_elements writes into the Objects section.
C11_CountsMatchRecords ==
    ObjectsWritten =>
        \A i \in DOMAIN fbx_scene_data.templates :
            fbx_scene_data.templates[i].key # "GlobalSettings" =>
                TemplateBlocks(Section(fbx_root, "Definitions"))[i].elems[1].payload[1].val
                    = PyInt(Cardinality(RecordsOfClass(
                                Section(fbx_root, "Objects"),
                                fbx_scene_data.templates[i].key)))
\* The camera objects among the exportable objects of the scene of the run,
\* in the order of scene.objects.
IsExportedCamera(obj) == obj.type \in object_types /\ obj.type = "CAMERA"
ExportedCameras == SelectSeq(fbx_scene.objects, IsExportedCamera)

\* C12: for every camera object among the exportable objects, the Objects
\* section contains exactly one NodeAttribute record of subtype
\* CameraSwitcher and exactly one of subtype Camera for it, the Camera record
\* immediately following its CameraSwitcher record: the records are the
\* pairs of the camera objects in order, the switcher named after the
\* object's camera data and the camera placed at the object's location.
C12_SwitcherThenCamera ==
    ObjectsWritten =>
        LET recs == Section(fbx_root, "Objects").elems
        IN  /\ Len(recs) = 2 * Len(ExportedCameras)
            /\ \A i \in DOMAIN ExportedCameras :
                  /\ RecordClass(recs[2 * i - 1]) = "NodeAttribute::CameraSwitcher"
                  /\ SubElem(recs[2 * i - 1], "Name").payload[1].val
                        = Str(ExportedCameras[i].data.name \o " switcher")
                  /\ RecordClass(recs[2 * i]) = "NodeAttribute::Camera"
                  /\ SubElem(recs[2 * i], "Position")
                        = data_vec("Position",
                                   object_tx(ExportedCameras[i], fbx_scene_data).loc,
                                   "add_float64")

\* A run that wrote the records of two camera objects.
C12_Witness ==
    /\ pc = "connections"
    /\ Len(ExportedCameras) = 2
    /\ Len(Section(fbx_root, "Objects").elems) = 4
\* Whether fbx_data_from_scene has returned the snapshot of the run.
SnapshotBuilt == pc \notin {"idle", "scene_data"}

IsExported(obj) == obj.type \in object_types
ExportedObjects == SelectSeq(fbx_scene.objects, IsExported)

HasTemplate(templates, key) ==
    \E i \in DOMAIN templates : templates[i].key = key

\* nbr_users of the template registered under key.
UsersOf(templates, key) == TemplateOf(templates, key).nbr_users

\* C13 as stated: in the snapshot built by fbx_data_from_scene, the Model
\* template's user count equals the number of exportable objects, a camera's
\* NodeAttribute pair adding no Model, and the Camera and CameraSwitcher
\* counts equal the number of camera objects.
C13_Original ==
    SnapshotBuilt /\ ExportedObjects # <<>> =>
        /\ UsersOf(fbx_scene_data.templates, "Model") = Len(ExportedObjects)
        /\ ExportedCameras # <<>> =>
              /\ UsersOf(fbx_scene_data.templates, "NodeAttribute::Camera")
                    = Len(ExportedCameras)
              /\ UsersOf(fbx_scene_data.templates, "NodeAttribute::CameraSwitcher")
                    = Len(ExportedCameras)

\* C13 as amended: the Model template's user count equals the number of
\* exportable objects plus the number of camera objects among them, and the
\* Camera and CameraSwitcher counts equal the number of camera objects; the
\* Model template is registered only when there is an exportable object,
\* the camera templates only when there is a camera object.
C13_ModelCountsCamerasTwice ==
    SnapshotBuilt =>
        /\ HasTemplate(fbx_scene_data.templates, "Model")
              <=> ExportedObjects # <<>>
        /\ ExportedObjects # <<>> =>
              UsersOf(fbx_scene_data.templates, "Model")
                  = Len(ExportedObjects) + Len(ExportedCameras)
        /\ HasTemplate(fbx_scene_data.templates, "NodeAttribute::Camera")
              <=> ExportedCameras # <<>>
        /\ HasTemplate(fbx_scene_data.templates, "NodeAttribute::CameraSwitcher")
              <=> ExportedCameras # <<>>
        /\ ExportedCameras # <<>> =>
              /\ UsersOf(fbx_scene_data.templates, "NodeAttribute::Camera")
                    = Len(ExportedCameras)
              /\ UsersOf(fbx_scene_data.templates, "NodeAttribute::CameraSwitcher")
                    = Len(ExportedCameras)

\* The snapshot of a scene with a single camera: Model 2, Camera 1,
\* CameraSwitcher 1.
C13_Witness ==
    /\ pc = "header"
    /\ Len(fbx_scene.objects) = 1
    /\ Len(ExportedCameras) = 1
    /\ UsersOf(fbx_scene_data.templates, "Model") = 2
    /\ UsersOf(fbx_scene_data.templates, "NodeAttribute::Camera") = 1
    /\ UsersOf(fbx_scene_data.templates, "NodeAttribute::CameraSwitcher") = 1
\* A step that ends the run of save_single.
RunEnds == pc # "idle" /\ pc' = "idle"

\* C14: for a scene with no exportable object, the export raises no error,
\* the Definitions section has total Count 1 and exactly one template block,
\* which is the GlobalSettings template with Count 1, and the Objects
\* section has no children.
C14_EmptySceneExport ==
    /\ [](ObjectsWritten /\ ExportedObjects = <<>> =>
            LET definitions == Section(fbx_root, "Definitions")
                blocks == TemplateBlocks(definitions)
            IN  /\ SubElem(definitions, "Count").payload[1].val = PyInt(1)
                /\ Len(blocks) = 1
                /\ blocks[1].name = "ObjectType"
                /\ blocks[1].payload[1].val = Bytes("GlobalSettings")
                /\ SubElem(blocks[1], "Count").payload[1].val = PyInt(1)
                /\ Section(fbx_root, "Objects").elems = <<>>)
    /\ [][RunEnds /\ ExportedObjects = <<>> => ret' = "FINISHED"]_vars
\* The exported camera objects that have their camera data, and whether one
\* lacks it.
HasCameraData(obj) == IsExportedCamera(obj) /\ obj.data # NoData
CamerasWithData == SelectSeq(fbx_scene.objects, HasCameraData)
SomeCameraLacksData == Len(CamerasWithData) < Len(ExportedCameras)

\* C15: when an exportable camera object lacks its camera data, the export
\* still completes, no CameraSwitcher or Camera record is written for that
\* object, and it is excluded from the template user counts before the
\* Definitions section is written.
C15_DatalessCameraSkipped ==
    /\ [][RunEnds /\ SomeCameraLacksData => ret' = "FINISHED"]_vars
    /\ [](SnapshotBuilt /\ SomeCameraLacksData /\ CamerasWithData # <<>> =>
            /\ UsersOf(fbx_scene_data.templates, "NodeAttribute::Camera")
                  = Len(CamerasWithData)
            /\ UsersOf(fbx_scene_data.templates, "NodeAttribute::CameraSwitcher")
                  = Len(CamerasWithData))
    /\ [](ObjectsWritten /\ SomeCameraLacksData =>
            Len(Section(fbx_root, "Objects").elems) = 2 * Len(CamerasWithData))
\* save_single(operator, scene, filepath), lines 811-835, in a fresh process
\* and when nothing raises: the root handed to encode_bin.write. now is what
\* datetime.now() returns at line 646, h the hash of the document key and hs
\* the hashes of the camera keys in that process.
save_single_root(scene, now, h, hs) ==
    LET scene_data == fbx_data_from_scene(scene, object_types, MTX_GLOB,
                                          median_scale(MTX_GLOB))
        AfterObjects(o) ==
            fbx_takes_elements(
                fbx_connections_elements(o.root, scene_data), scene_data)
        AfterDocumentKey(d) ==
            CHOOSE out \in
                {AfterObjects(o) :
                    o \in {fbx_objects_elements(
                              fbx_definitions_elements(
                                  fbx_references_elements(
                                      fbx_documents_elements(
                                          fbx_header_elements(
                                              elem_empty_none(""), NoTime, now),
                                          scene.name, d.call.uid)),
                                  scene_data),
                              scene_data, d.fwd, d.rev, d.call, hs)}} : TRUE
    IN  CHOOSE out \in
            {AfterDocumentKey(d) :
                d \in {get_fbxuid_from_key(EmptyMap, EmptyMap,
                                           DocumentKey(scene.name), h)}} : TRUE

\* C16: two runs of save_single on identical scene input with the same
\* fixed timestamp build identical element trees, whatever the wall-clock
\* time and the per-process hash values of the keys are: the tree a run
\* hands to the encoder is the tree of every run on that scene at one
\* timestamp, for all hash values.
C16_SameInputSameTree ==
    pc = "encode" =>
        \E now \in Times :
            \A h \in ExportHashes :
                \A hs \in [CameraKeys(fbx_scene_data) -> ExportHashes] :
                    fbx_root = save_single_root(fbx_scene, now, h, hs)
\* Whether the run has written its Definitions section.
DefinitionsWritten == pc \in {"objects", "connections", "takes", "encode"}

RECURSIVE SumOf(_)
SumOf(seq) == IF seq = <<>> THEN 0 ELSE Head(seq) + SumOf(Tail(seq))

\* C18: for every template registered in the snapshot,
\* fbx_definitions_elements appends exactly one ObjectType element whose
\* payload is that template's class tag (type_name) and whose Count child
\* equals that template's nbr_users; the Definitions-level Count equals the
\* sum of nbr_users over all registered templates.
C18_OneBlockPerTemplate ==
    DefinitionsWritten =>
        LET definitions == Section(fbx_root, "Definitions")
            blocks == TemplateBlocks(definitions)
            templates == fbx_scene_data.templates
        IN  /\ Len(blocks) = Len(templates)
            /\ \A i \in DOMAIN templates :
                  /\ blocks[i].name = "ObjectType"
                  /\ blocks[i].payload
                        = <<[enc |-> "add_string",
                             val |-> Bytes(templates[i].tmpl.type_name)]>>
                  /\ SubElem(blocks[i], "Count").payload[1].val
                        = PyInt(templates[i].tmpl.nbr_users)
            /\ SubElem(definitions, "Count").payload[1].val
                  = PyInt(SumOf([i \in DOMAIN templates |->
                                   templates[i].tmpl.nbr_users]))

\* The UID a record of the Objects section carries: the first item of its
\* payload.
RecordUid(rec) == rec.payload[1].val

\* C19: for every scene, the UIDs carried by the records written into the
\* Objects section are pairwise distinct, including when several camera
\* objects share the same camera data block.
C19_ObjectUidsDistinct ==
    ObjectsWritten =>
        LET recs == Section(fbx_root, "Objects").elems
        IN  \A i, j \in DOMAIN recs :
                i # j => RecordUid(recs[i]) # RecordUid(recs[j])

------------------------------------------------------------------------------
\* C17 (under SpecUid): when the candidate value c of a new key is already
\* used, _key_to_uid returns the nearest unused value above c if c < 2^63
\* and the nearest unused value below c otherwise; every value strictly
\* between c and the returned UID is already in the reverse map.
C17_LinearProbe ==
    [][last'.probed /\ ~last'.raised =>
          LET c == last'.cand
              uid == last'.uid
              used == DOMAIN uids_to_keys
          IN  /\ c \in used
              /\ uid \notin used
              /\ last'.key \notin DOMAIN keys_to_uids
              /\ IF c < UidHalf
                 THEN uid > c /\ \A v \in (c + 1) .. (uid - 1) : v \in used
                 ELSE uid < c /\ \A v \in (uid + 1) .. (c - 1) : v \in used]_vars

\* A call whose candidate, in the upper half, was used, and which probed
\* downwards past another used value.
C17_Witness ==
    /\ last.probed
    /\ ~last.raised
    /\ last.cand >= UidHalf
    /\ last.uid < last.cand - 1
====
